---- MODULE Spec2Model ----
(***************************************************************************)
(* A model of gepetto/models/openai_compatible.py: the OpenAICompatible    *)
(* client.  query_model is modelled step by step (payload, open, decode of *)
(* the buffered body or of one stream line, the two `+=` of the usage      *)
(* counters as a load and a store each, the two exception handlers), so    *)
(* that workers started by query_model_async interleave on the counters.   *)
(*                                                                         *)
(* JSON values are tagged records: json.loads maps null to None, objects   *)
(* to dicts (functions from keys), arrays to lists (sequences).            *)
(***************************************************************************)
EXTENDS Integers, Sequences, FiniteSets, TLC

VARIABLES
    input_tokens,   \* self.input_tokens
    output_tokens,  \* self.output_tokens
    pc,             \* per thread: where query_model is
    args,           \* per thread: the arguments of the running query_model
    request,        \* per thread: the payload of the request built, until it is opened
    resp,           \* per thread: what opener.open answered (body, HTTP error, failure)
    lines,          \* per thread: what readline() has returned so far (b"" is Eof)
    reg,            \* per thread: the counter value loaded by the running `+=`
    exc,            \* per thread: the exception being propagated to a handler
    events,         \* per thread: the calls the callback has received, in order
    raised,         \* per thread: an exception left query_model
    start,          \* per thread: the counters when the query began (history)
    hist,           \* history of the finished synchronous queries
    host,           \* whether execute_sync lets an exception of the callable through
    issued          \* number of queries issued so far

vars == <<input_tokens, output_tokens, pc, args, request, resp, lines, reg, exc,
          events, raised, start, hist, host, issued>>

----------------------------------------------------------------------------
(* Bounds *)

\* Queries issued in one run.
MaxQueries == 2
\* Queries issued through query_model_async in one run.
MaxAsync == 2
\* Lines one stream returns before the transport reports EOF.
MaxLines == 3
\* Messages of a conversation the caller goes on appending to.
MaxMessages == 2

----------------------------------------------------------------------------
(* JSON and Python values *)

JNull == [t |-> "null"]
JBool(b) == [t |-> "bool", v |-> b]
JNum(n) == [t |-> "num", v |-> n]
JStr(s) == [t |-> "str", v |-> s]
JList(s) == [t |-> "list", v |-> s]
JObj(f) == [t |-> "obj", v |-> f]
\* A Python object json.dumps cannot serialise.
PyObject == [t |-> "pyobject"]
\* Python's None.
PyNone == JNull
\* The empty dict {}.
EmptyDict == JObj(<<>>)
\* An argument that is not passed.
NoArg == [t |-> "noarg"]

\* The result of an expression: a value, or the exception it raises.
Val(v) == [exc |-> "", v |-> v]
Raise(e) == [exc |-> e, v |-> PyNone]

\* `key in s` for two strings: key is a substring of s.
Contains(s, key) ==
    \E i \in 1..(Len(s) - Len(key) + 1) : SubSeq(s, i, i + Len(key) - 1) = key

\* `key in j`
PyIn(key, j) ==
    CASE j.t = "obj" -> Val(key \in DOMAIN j.v)
      [] j.t = "list" -> Val(\E i \in DOMAIN j.v : j.v[i] = JStr(key))
      [] j.t = "str" -> Val(Contains(j.v, key))
      [] OTHER -> Raise("TypeError")

\* `j[key]` for a string key
PyItem(j, key) ==
    CASE j.t = "obj" -> IF key \in DOMAIN j.v THEN Val(j.v[key]) ELSE Raise("KeyError")
      [] OTHER -> Raise("TypeError")

\* `j[0]`
PyFirst(j) ==
    CASE j.t = "list" -> IF Len(j.v) > 0 THEN Val(j.v[1]) ELSE Raise("IndexError")
      [] j.t = "obj" -> Raise("KeyError")
      [] j.t = "str" -> IF Len(j.v) > 0
                        THEN Val(JStr(SubSeq(j.v, 1, 1)))
                        ELSE Raise("IndexError")
      [] OTHER -> Raise("TypeError")

\* `j.get(key, default)`
PyGet(j, key, default) ==
    IF j.t = "obj"
    THEN Val(IF key \in DOMAIN j.v THEN j.v[key] ELSE default)
    ELSE Raise("AttributeError")

\* `j[:100]`
PySlice(j) ==
    IF j.t \in {"str", "list"} THEN Val(j) ELSE Raise("TypeError")

\* bool(j)
PyTruthy(j) ==
    CASE j.t = "null" -> FALSE
      [] j.t = "bool" -> j.v
      [] j.t = "num" -> j.v # 0
      [] j.t = "str" -> j.v # ""
      [] j.t = "list" -> Len(j.v) > 0
      [] j.t = "obj" -> DOMAIN j.v # {}
      [] OTHER -> TRUE

\* `n + j` for an int n: a bool is an int (True is 1, False is 0).
PyAdd(n, j) ==
    CASE j.t = "num" -> Val(n + j.v)
      [] j.t = "bool" -> Val(n + (IF j.v THEN 1 ELSE 0))
      [] OTHER -> Raise("TypeError")

\* json.dumps walks the whole value: every element of a list and every value
\* of a dict has to be a JSON value.
RECURSIVE Serialisable(_)
Serialisable(j) ==
    CASE j.t = "pyobject" -> FALSE
      [] j.t = "list" -> \A i \in DOMAIN j.v : Serialisable(j.v[i])
      [] j.t = "obj" -> \A k \in DOMAIN j.v : Serialisable(j.v[k])
      [] OTHER -> TRUE

\* json.dumps: TypeError on a value that is no JSON value.
JsonDumps(j) ==
    IF Serialisable(j) THEN Val(j) ELSE Raise("TypeError")

\* bytes.decode("utf-8") followed by json.loads
JsonLoads(raw) ==
    CASE raw.t = "badutf8" -> Raise("UnicodeDecodeError")
      [] raw.t = "json" -> Val(raw.v)
      [] OTHER -> Raise("JSONDecodeError")

----------------------------------------------------------------------------
(* The callback and the UI executor *)

Threads == {"main", "t1", "t2"}
\* The threads query_model_async starts.
AsyncThreads == {"t1", "t2"}

\* A callback takes one positional parameter (response) or two
\* (response, finish_reason), none of them optional.
Callbacks == {"Callback1", "Callback2"}
\* cb = None: the caller passes no callback.
NoCallback == "None"
NumParams(cb) ==
    CASE cb = "Callback1" -> 1
      [] cb = "Callback2" -> 2
      [] OTHER -> 0

\* One call of the callback, as the callback sees it: the arguments passed and
\* the call site (kind).
Event(kind, a1, a2) == [kind |-> kind, a1 |-> a1, a2 |-> a2]
Delivered(evs) == [evs |-> evs, exc |-> ""]
NotDelivered(e) == [evs |-> <<>>, exc |-> e]

\* cb(...) with n arguments: the body runs, or Python raises TypeError (the
\* arguments do not fit, or cb is None and cannot be called).
Call(cb, ev, n) ==
    IF cb # NoCallback /\ NumParams(cb) = n
    THEN Delivered(<<ev>>)
    ELSE NotDelivered("TypeError")

\* ida_kernwin.execute_sync(fn, MFF_WRITE): fn runs on the UI thread before the
\* call returns.  Whether an exception of fn reaches the caller depends on the
\* host (propagates): IDA reports it and returns, a direct call re-raises it.
ExecuteUI(call, propagates) ==
    IF call.exc # "" /\ ~propagates THEN Delivered(call.evs) ELSE call

\* The messages of error events.
StrOf(j) == IF j.t = "str" THEN j ELSE [t |-> "repr", v |-> j]
HttpMessage(code, detail) == [t |-> "http", v |-> [code |-> code, detail |-> detail]]
GeneralMessage(e) == [t |-> "general", v |-> e]
ErrorDict(message) == JObj("error" :> message)

\* _notify_error's closure _invoke
Invoke(cb, message, stream) ==
    LET first == IF stream
                 THEN Call(cb, Event("error", ErrorDict(message), JStr("error")), 2)
                 ELSE Call(cb, Event("error", ErrorDict(message), NoArg), 1)
    IN  IF first.exc = "TypeError"
        THEN Call(cb, Event("error", ErrorDict(message), NoArg), 1)
        ELSE first

\* Lines 84-98: without a callback the error is printed and nothing is called.
NotifyError(cb, message, stream, propagates) ==
    IF cb = NoCallback
    THEN Delivered(<<>>)
    ELSE ExecuteUI(Invoke(cb, message, stream), propagates)

----------------------------------------------------------------------------
(* The request *)

\* self.model
Model == "default"

Conversation(query) ==
    IF query.t = "str"
    THEN JList(<<JObj([role |-> JStr("user"), content |-> query])>>)
    ELSE query

\* {base, **options}: a key of options replaces the same key of base.
Merge(base, options) ==
    [k \in DOMAIN base \cup DOMAIN options |->
        IF k \in DOMAIN options THEN options[k] ELSE base[k]]

\* Lines 101-115.  `**additional_model_options` raises TypeError when the
\* value is no mapping.
Payload(model, query, stream, options) ==
    LET given == IF options = PyNone THEN EmptyDict ELSE options
    IN  IF given.t # "obj"
        THEN Raise("TypeError")
        ELSE Val(JObj(Merge([model |-> JStr(model),
                             messages |-> Conversation(query),
                             stream |-> JBool(stream)],
                            given.v)))

\* What the model keeps of a request once it is sent, and of arguments that
\* nothing reads again.
Sent == [t |-> "sent"]
NoRequest == [t |-> "none"]
Consumed == [t |-> "consumed"]

----------------------------------------------------------------------------
(* Decoding *)

\* The outcome of a step of query_model: the callback calls it made, the
\* exception it raised inside the try block (if any), and where it goes on.
Step(evs, next) == [evs |-> evs, exc |-> "", next |-> next]
Throw(evs, e) == [evs |-> evs, exc |-> e, next |-> "except"]

\* class Message: d.get(...) gives None for an absent key.
Message(d) ==
    [t |-> "Message",
     v |-> [role |-> PyGet(d, "role", PyNone).v,
            content |-> PyGet(d, "content", PyNone).v,
            tool_calls |-> PyGet(d, "tool_calls", PyNone).v]]

\* The non-stream branch after the error check: the message, the log line that
\* slices its content, the delivery, and the test for usage.
DecodeMessage(data, cb, propagates) ==
    LET choices == PyItem(data, "choices")
        choice == IF choices.exc = "" THEN PyFirst(choices.v) ELSE choices
        message == IF choice.exc = "" THEN PyItem(choice.v, "message") ELSE choice
        content == IF message.exc = "" THEN PyGet(message.v, "content", PyNone) ELSE message
        shown == IF content.exc = "" THEN PySlice(content.v) ELSE content
    IN  IF shown.exc # ""
        THEN Throw(<<>>, shown.exc)
        ELSE LET sent == ExecuteUI(Call(cb, Event("response", Message(message.v), NoArg), 1),
                                   propagates)
             IN  IF sent.exc # ""
                 THEN Throw(sent.evs, sent.exc)
                 ELSE Step(sent.evs, IF PyIn("usage", data).v THEN "in_load" ELSE "done")

\* (mutant) the usage of an error body is accumulated
Mut_AfterErrorBodyCountsUsage(data) == IF PyIn("usage", data).v THEN "in_load" ELSE "done"
\* Line 139: return after the error event; lines 154-158 are not reached.
AfterErrorBody(data) == "done"

\* The non-stream branch: read, decode, json.loads, the error check.
NonStreamBody(raw, cb, propagates) ==
    LET data == JsonLoads(raw)
        hasError == IF data.exc = "" THEN PyIn("error", data.v) ELSE data
    IN  IF hasError.exc # ""
        THEN Throw(<<>>, hasError.exc)
        ELSE IF hasError.v
        THEN LET error == PyItem(data.v, "error")
                 message == IF error.exc = ""
                            THEN PyGet(error.v, "message", StrOf(error.v))
                            ELSE error
             IN  IF message.exc # ""
                 THEN Throw(<<>>, message.exc)
                 ELSE LET told == NotifyError(cb, message.v, FALSE, propagates)
                      IN  IF told.exc # ""
                          THEN Throw(told.evs, told.exc)
                          ELSE Step(told.evs, AfterErrorBody(data.v))
        ELSE DecodeMessage(data.v, cb, propagates)

\* (mutant) the loop goes on after the stop event
Mut_AfterDoneContinue == "line"
\* Line 176: break after the stop event.
AfterDone == "done"
\* (mutant) the loop goes on after an error frame
Mut_AfterErrorFrameContinue == "line"
\* Line 183: return after the error event of an error frame.
AfterErrorFrame == "done"
\* (mutant) a line that is no JSON is not caught in the loop
Mut_JSONDecodeErrorFatal == Throw(<<>>, "JSONDecodeError")
\* Lines 202-203: except json.JSONDecodeError: continue
OnJSONDecodeError == Step(<<>>, "line")

\* Lines 194-195: functools.partial(cb, delta, finish_reason) raises TypeError
\* at once when cb is not callable; otherwise the call is made on the UI thread.
Partial(cb, ev, propagates) ==
    IF cb = NoCallback
    THEN NotDelivered("TypeError")
    ELSE ExecuteUI(Call(cb, ev, 2), propagates)

\* (mutant) any exception of a parsed frame is skipped like a parse failure
Mut_OnChunkErrorSkips(e) == Step(<<>>, "line")
\* Lines 178 and 202: the inner try catches json.JSONDecodeError only, so any
\* other exception of the frame's handling leaves the loop for the handler of
\* line 212.
OnChunkError(e) == Throw(<<>>, e)

\* (mutant) the usage of a frame is never accumulated
Mut_AfterDeltaSkipsUsage(chunk) == "line"
\* Line 197: if "usage" in chunk and chunk["usage"]: the counters are updated
\* before the next line is read.
AfterDelta(chunk) ==
    IF PyIn("usage", chunk).v /\ PyTruthy(chunk.v["usage"]) THEN "in_load" ELSE "line"

\* One frame of the stream, parsed: the error check, the delta, the delivery,
\* and the test for usage.
DecodeChunk(chunk, cb, propagates) ==
    LET hasError == PyIn("error", chunk)
    IN  IF hasError.exc # ""
        THEN OnChunkError(hasError.exc)
        ELSE IF hasError.v
        THEN LET error == PyItem(chunk, "error")
             IN  IF error.exc # ""
                 THEN OnChunkError(error.exc)
                 ELSE LET told == NotifyError(cb, StrOf(error.v), TRUE, propagates)
                      IN  IF told.exc # ""
                          THEN Throw(told.evs, told.exc)
                          ELSE Step(told.evs, AfterErrorFrame)
        ELSE LET choices == PyGet(chunk, "choices", JList(<<EmptyDict>>))
                 choice == IF choices.exc = "" THEN PyFirst(choices.v) ELSE choices
                 delta == IF choice.exc = "" THEN PyGet(choice.v, "delta", EmptyDict) ELSE choice
                 content == IF delta.exc = "" THEN PyGet(delta.v, "content", JStr("")) ELSE delta
                 finish == IF content.exc = ""
                           THEN PyGet(choice.v, "finish_reason", PyNone)
                           ELSE content
             IN  IF finish.exc # ""
                 THEN OnChunkError(finish.exc)
                 ELSE LET sent == Partial(cb, Event("delta", delta.v, finish.v), propagates)
                      IN  IF sent.exc # ""
                          THEN Throw(sent.evs, sent.exc)
                          ELSE Step(sent.evs, AfterDelta(chunk))

\* (mutant) the end of the transport is reported as a stop event
Mut_EofDeliversStop == Step(<<Event("stop", EmptyDict, JStr("stop"))>>, "done")
\* Lines 164-165: if not line: break.  Nothing is delivered.
OnEof == Step(<<>>, "done")

\* One turn of the stream loop on the line readline() returned.
StreamLine(line, cb, propagates) ==
    CASE line.t = "eof" -> OnEof
      [] line.t = "badutf8" -> Throw(<<>>, "UnicodeDecodeError")
      [] line.t = "other" -> Step(<<>>, "line")
      [] line.t = "data" /\ line.v.t = "done" ->
            LET sent == ExecuteUI(Call(cb, Event("stop", EmptyDict, JStr("stop")), 2),
                                  propagates)
            IN  IF sent.exc # "" THEN Throw(sent.evs, sent.exc) ELSE Step(sent.evs, AfterDone)
      [] line.t = "data" /\ line.v.t = "json" -> DecodeChunk(line.v.v, cb, propagates)
      [] OTHER -> OnJSONDecodeError

----------------------------------------------------------------------------
(* Inputs: what callers pass and what the endpoint answers *)

RawJson(j) == [t |-> "json", v |-> j]
Garbage == [t |-> "garbage"]
BadUtf8 == [t |-> "badutf8"]
NoBody == [t |-> "nobody"]

Presence == {"absent", "null", "value"}
Field(key, how, value) ==
    IF how = "absent" THEN <<>> ELSE key :> (IF how = "null" THEN JNull ELSE value)

MessageObject(role, content, tool_calls) ==
    JObj(Field("role", role, JStr("assistant"))
         @@ Field("content", content, JStr("hi"))
         @@ Field("tool_calls", tool_calls, JList(<<JStr("call")>>)))

UsageObject(p, c) == JObj([prompt_tokens |-> p, completion_tokens |-> c])

\* The values of a response's "usage" key.
Usages ==
    { JNull, EmptyDict,
      UsageObject(JNum(10), JNum(5)), UsageObject(JNum(20), JNum(15)),
      JObj([prompt_tokens |-> JNum(10)]), JObj([completion_tokens |-> JNum(5)]),
      UsageObject(JNum(10), JNull), UsageObject(JNum(10), JBool(TRUE)) }

ResponseBody(message, usage) ==
    JObj(("choices" :> JList(<<JObj("message" :> message)>>))
         @@ Field("usage", IF usage = NoArg THEN "absent" ELSE "value", usage))

\* The buffered bodies of a 2xx answer.
Bodies ==
    { Garbage, BadUtf8,
      RawJson(JObj("error" :> JStr("boom"))),
      RawJson(JObj(("error" :> JObj("message" :> JStr("bad key")))
                   @@ ("usage" :> UsageObject(JNum(20), JNum(15))))),
      RawJson(JObj("error" :> JObj("code" :> JNum(5)))),
      RawJson(EmptyDict),
      RawJson(JObj("choices" :> JList(<<>>))) }
    \cup { RawJson(ResponseBody(MessageObject(r, c, tc), NoArg)) :
             r \in Presence, c \in Presence, tc \in Presence }
    \cup { RawJson(ResponseBody(MessageObject("value", "value", "absent"), u)) : u \in Usages }

Answer(t, code, body) == [t |-> t, code |-> code, body |-> body]
NoAnswer == Answer("none", 0, NoBody)

\* What opener.open does: a 2xx answer, an HTTPError, or another failure.
Failures ==
    { Answer("http", 401, RawJson(JObj("error" :> JObj("message" :> JStr("bad key"))))),
      Answer("http", 500, BadUtf8),
      Answer("fail", 0, NoBody) }

Answers(stream) ==
    Failures \cup (IF stream
                   THEN {Answer("ok", 200, NoBody)}
                   ELSE {Answer("ok", 200, b) : b \in Bodies})

Choice(delta, finish) ==
    JObj(Field("delta", IF delta = NoArg THEN "absent" ELSE "value", delta)
         @@ Field("finish_reason", IF finish = NoArg THEN "absent" ELSE "value", finish))
Chunk(choices, usage) ==
    JObj(Field("choices", IF choices = NoArg THEN "absent" ELSE "value", choices)
         @@ Field("usage", IF usage = NoArg THEN "absent" ELSE "value", usage))
Data(payload) == [t |-> "data", v |-> payload]

Done == Data([t |-> "done"])
Eof == [t |-> "eof"]
DeltaA == Data(RawJson(Chunk(JList(<<Choice(JObj("content" :> JStr("A")), NoArg)>>), NoArg)))
DeltaB ==
    Data(RawJson(Chunk(JList(<<Choice(JObj("content" :> JStr("B")), JStr("stop"))>>),
                       UsageObject(JNum(10), JNum(5)))))
ErrorFrame ==
    Data(RawJson(JObj(("error" :> JStr("boom"))
                      @@ ("usage" :> UsageObject(JNum(20), JNum(15))))))

\* The lines a stream returns in the runs: bytes that do not decode, [DONE],
\* a payload that is no JSON, frames with and without delta, usage and error,
\* and payloads that are JSON but no object.
Lines ==
    { [t |-> "badutf8"], Done, Data(Garbage),
      DeltaA, DeltaB, ErrorFrame,
      Data(RawJson(Chunk(NoArg, JNull))),
      Data(RawJson(Chunk(JList(<<Choice(NoArg, JStr("length"))>>), EmptyDict))),
      Data(RawJson(Chunk(JList(<<>>), UsageObject(JNum(20), JNum(15))))),
      Data(RawJson(JNum(5))),
      Data(RawJson(JList(<<>>))),
      Data(RawJson(JStr("an error here"))),
      Data(RawJson(JNull)) }

Queries == { JStr("hello"), JList(<<JObj([role |-> JStr("system"), content |-> JStr("rules")])>>) }

\* additional_model_options
Options(stream) ==
    { PyNone,
      JObj("temperature" :> JNum(1)),
      JObj("temperature" :> PyObject),
      JObj("stop" :> JList(<<PyObject>>)),
      JList(<<>>),
      JObj("model" :> JStr("other")),
      JObj("messages" :> JList(<<>>)),
      JObj("stream" :> JBool(~stream)) }

Args(query, cb, stream, options) ==
    [query |-> query, cb |-> cb, stream |-> stream, opts |-> options]
NoArgs == Args(Consumed, "Callback1", FALSE, Consumed)

\* The calls of query_model: every query, callback and mode without options,
\* calls without a callback, and every value of the options in both modes.
SyncCalls ==
    { Args(q, cb, s, PyNone) : q \in Queries, cb \in Callbacks, s \in BOOLEAN }
    \cup { Args(JStr("hello"), NoCallback, s, PyNone) : s \in BOOLEAN }
    \cup { Args(JStr("hello"), "Callback1", FALSE, o) : o \in Options(FALSE) }
    \cup { Args(JStr("hello"), "Callback2", TRUE, o) : o \in Options(TRUE) }

\* The calls query_model_async makes in the concurrent runs.
AsyncCalls ==
    { Args(JStr("hello"), "Callback1", FALSE, PyNone),
      Args(JStr("hello"), "Callback2", TRUE, PyNone),
      Args(JStr("hello"), "Callback1", FALSE, JObj("temperature" :> PyObject)),
      Args(JList(<<JObj([role |-> JStr("system"), content |-> JStr("rules")])>>),
           "Callback1", FALSE, PyNone) }

\* What the endpoint answers to the workers of the concurrent runs.
AsyncBodies ==
    { RawJson(ResponseBody(MessageObject("value", "value", "absent"), u)) :
        u \in {UsageObject(JNum(10), JNum(5)), UsageObject(JNum(20), JNum(15))} }
AsyncAnswers(stream) ==
    IF stream
    THEN {Answer("ok", 200, NoBody)}
    ELSE Failures \cup {Answer("ok", 200, b) : b \in AsyncBodies}
\* The streams of the concurrent runs carry no usage: the workers meet on the
\* counters through the non-stream answers.
AsyncLines == {DeltaA, Done}

----------------------------------------------------------------------------
(* State *)

\* What `+=` adds for a usage value: the number, 1 or 0 for a bool.
Tokens(j) ==
    CASE j.t = "num" -> j.v
      [] j.t = "bool" -> IF j.v THEN 1 ELSE 0
      [] OTHER -> 0

\* The usage a finished non-stream query's response reported under `key`
\* (0 when the response has no usage object or no such number in it).
Reported(answer, key) ==
    LET data == answer.body.v.v
    IN  IF "usage" \in DOMAIN data
        THEN LET u == data["usage"]
             IN  IF u.t = "obj" /\ key \in DOMAIN u.v THEN Tokens(u.v[key]) ELSE 0
        ELSE 0

\* A query that ended with its ResponseMessage delivered and nothing else.
Succeeded(w) ==
    /\ pc[w] = "done"
    /\ ~args[w].stream
    /\ ~raised[w]
    /\ Len(events[w]) = 1
    /\ events[w][1].kind = "response"

\* The history with the query that thread w has finished added to it.
Fold(h, w) ==
    IF h.ok /\ Succeeded(w)
    THEN [n |-> h.n + 1, ok |-> TRUE,
          in |-> h.in + Reported(resp[w], "prompt_tokens"),
          out |-> h.out + Reported(resp[w], "completion_tokens")]
    ELSE [n |-> h.n + 1, ok |-> FALSE, in |-> 0, out |-> 0]

\* __init__: the counters start at zero; no query is running.
Init ==
    /\ input_tokens = 0
    /\ output_tokens = 0
    /\ pc = [w \in Threads |-> "idle"]
    /\ args = [w \in Threads |-> NoArgs]
    /\ request = [w \in Threads |-> NoRequest]
    /\ resp = [w \in Threads |-> NoAnswer]
    /\ lines = [w \in Threads |-> <<>>]
    /\ reg = [w \in Threads |-> 0]
    /\ exc = [w \in Threads |-> ""]
    /\ events = [w \in Threads |-> <<>>]
    /\ raised = [w \in Threads |-> FALSE]
    /\ start = [w \in Threads |-> <<0, 0>>]
    /\ hist = [n |-> 0, ok |-> TRUE, in |-> 0, out |-> 0]
    /\ host \in {"ida", "direct"}
    /\ issued = 0

----------------------------------------------------------------------------
(* query_model, step by step *)

\* A call of query_model(query, cb, stream, additional_model_options) on
\* thread w: the thread stands at line 100 with the call's arguments; `caller`
\* is where the calling thread goes on.
Enter(w, a, limit, caller) ==
    /\ pc[w] \in {"idle", "done"}
    /\ issued < limit
    /\ issued' = issued + 1
    /\ args' = [args EXCEPT ![w] = a]
    /\ request' = [request EXCEPT ![w] = NoRequest]
    /\ resp' = [resp EXCEPT ![w] = NoAnswer]
    /\ lines' = [lines EXCEPT ![w] = <<>>]
    /\ reg' = [reg EXCEPT ![w] = 0]
    /\ exc' = [exc EXCEPT ![w] = ""]
    /\ events' = [events EXCEPT ![w] = <<>>]
    /\ raised' = [raised EXCEPT ![w] = FALSE]
    /\ pc' = [pc EXCEPT !["main"] = caller, ![w] = "begin"]
    /\ UNCHANGED <<input_tokens, output_tokens, start, host>>

\* query_model called by the caller's own thread, one call after another.
QueryModel(w) ==
    /\ w = "main"
    /\ \E a \in SyncCalls : Enter(w, a, MaxQueries, "begin")
    /\ hist' = IF pc[w] = "done" THEN Fold(hist, w) ELSE hist

\* (mutant) query_model_async runs the query on the caller's thread
Mut_ThreadIsCaller(w) == w = "main"
\* Lines 217-221: threading.Thread(target=self.query_model, ..., daemon=True):
\* the query gets a thread of its own, never the caller's.
Thread(w) == w \in AsyncThreads

\* query_model_async up to t.start() (line 222): a daemon thread is started
\* that will run query_model with the call's arguments; it has not run line 100
\* yet.  The caller is still inside query_model_async.
QueryModelAsync(w) ==
    /\ Thread(w)
    /\ pc["main"] = "idle"
    /\ \E a \in AsyncCalls : Enter(w, a, MaxAsync, "called")
    /\ UNCHANGED hist

\* query_model_async returns: after t.start() there is no join, so the return
\* waits for nothing, wherever the workers are.
ReturnAsync ==
    /\ pc["main"] = "called"
    /\ pc' = [pc EXCEPT !["main"] = "idle"]
    /\ UNCHANGED <<input_tokens, output_tokens, args, request, resp, lines, reg, exc,
                   events, raised, start, hist, host, issued>>

\* The thread got the caller's query object itself (line 219): a message the
\* caller appends to its list before the worker has built the payload is in
\* the request.
CallerAppends(w) ==
    /\ w \in AsyncThreads
    /\ pc["main"] = "idle"
    /\ pc[w] = "begin"
    /\ args[w].query.t = "list"
    /\ Len(args[w].query.v) < MaxMessages
    /\ args' = [args EXCEPT ![w].query =
                    JList(Append(@.v, JObj([role |-> JStr("user"), content |-> JStr("more")])))]
    /\ UNCHANGED <<input_tokens, output_tokens, pc, request, resp, lines, reg, exc,
                   events, raised, start, hist, host, issued>>

\* Lines 100-125: the payload is built and serialised before the try block, so
\* an exception of the dict literal or of json.dumps leaves query_model.
Begin(w) ==
    LET payload == Payload(Model, args[w].query, args[w].stream, args[w].opts)
        dumped == IF payload.exc = "" THEN JsonDumps(payload.v) ELSE payload
    IN  /\ pc[w] = "begin"
        /\ start' = [start EXCEPT ![w] = <<input_tokens, output_tokens>>]
        /\ IF dumped.exc # ""
           THEN /\ raised' = [raised EXCEPT ![w] = TRUE]
                /\ pc' = [pc EXCEPT ![w] = "done"]
                /\ UNCHANGED request
           ELSE /\ request' = [request EXCEPT ![w] = dumped.v]
                /\ pc' = [pc EXCEPT ![w] = "open"]
                /\ UNCHANGED raised
        /\ UNCHANGED <<input_tokens, output_tokens, args, resp, lines, reg, exc,
                       events, hist, host, issued>>

\* Line 128: opener.open(request, timeout=120).  The request and the arguments
\* that only the payload used are not read again.
Open(w) ==
    /\ pc[w] = "open"
    /\ \E r \in (IF w \in AsyncThreads
                 THEN AsyncAnswers(args[w].stream)
                 ELSE Answers(args[w].stream)) :
         /\ resp' = [resp EXCEPT ![w] = r]
         /\ pc' = [pc EXCEPT ![w] =
                CASE r.t = "http" -> "http_error"
                  [] r.t = "fail" -> "except"
                  [] OTHER -> IF args[w].stream THEN "line" ELSE "body"]
         /\ exc' = [exc EXCEPT ![w] =
                CASE r.t = "http" -> "HTTPError"
                  [] r.t = "fail" -> "URLError"
                  [] OTHER -> ""]
    /\ request' = [request EXCEPT ![w] = Sent]
    /\ args' = [args EXCEPT ![w].query = Consumed, ![w].opts = Consumed]
    /\ UNCHANGED <<input_tokens, output_tokens, lines, reg, events, raised, start,
                   hist, host, issued>>

\* The effect of a step's outcome on the thread.
Continue(w, r) ==
    /\ events' = [events EXCEPT ![w] = @ \o r.evs]
    /\ exc' = [exc EXCEPT ![w] = r.exc]
    /\ pc' = [pc EXCEPT ![w] = r.next]

\* Lines 132-154: the buffered body.
NonStream(w) ==
    /\ pc[w] = "body"
    /\ Continue(w, NonStreamBody(resp[w].body, args[w].cb, host = "direct"))
    /\ UNCHANGED <<input_tokens, output_tokens, args, request, resp, lines, reg,
                   raised, start, hist, host, issued>>

\* Lines 162-197: one turn of the stream loop.
ReadLine(w) ==
    /\ pc[w] = "line"
    /\ \E line \in (IF Len(lines[w]) >= MaxLines THEN {}
                    ELSE IF w \in AsyncThreads THEN AsyncLines ELSE Lines) \cup {Eof} :
         /\ lines' = [lines EXCEPT ![w] = Append(@, line)]
         /\ Continue(w, StreamLine(line, args[w].cb, host = "direct"))
    /\ UNCHANGED <<input_tokens, output_tokens, args, request, resp, reg, raised,
                   start, hist, host, issued>>

\* data["usage"] of the body, chunk["usage"] of the current frame.
CurrentUsage(w) ==
    IF args[w].stream
    THEN lines[w][Len(lines[w])].v.v.v["usage"]
    ELSE resp[w].body.v.v["usage"]

\* (mutant) `=` in place of `+=`
Mut_AccumulateOverwrite(loaded, usage, key) ==
    LET tokens == PyGet(usage, key, JNum(0))
    IN  IF tokens.exc = "" THEN PyAdd(0, tokens.v) ELSE tokens

\* counter += usage.get(key, 0), with the counter's value loaded before.
Accumulate(loaded, usage, key) ==
    LET tokens == PyGet(usage, key, JNum(0))
    IN  IF tokens.exc = "" THEN PyAdd(loaded, tokens.v) ELSE tokens

\* self.input_tokens += ...: the attribute is loaded first,
LoadInput(w) ==
    /\ pc[w] = "in_load"
    /\ reg' = [reg EXCEPT ![w] = input_tokens]
    /\ pc' = [pc EXCEPT ![w] = "in_store"]
    /\ UNCHANGED <<input_tokens, output_tokens, args, request, resp, lines, exc,
                   events, raised, start, hist, host, issued>>

\* then usage.get("prompt_tokens", 0) is evaluated, added, and the sum stored.
StoreInput(w) ==
    LET sum == Accumulate(reg[w], CurrentUsage(w), "prompt_tokens")
    IN  /\ pc[w] = "in_store"
        /\ IF sum.exc # ""
           THEN /\ exc' = [exc EXCEPT ![w] = sum.exc]
                /\ pc' = [pc EXCEPT ![w] = "except"]
                /\ UNCHANGED input_tokens
           ELSE /\ input_tokens' = sum.v
                /\ pc' = [pc EXCEPT ![w] = "out_load"]
                /\ UNCHANGED exc
        /\ reg' = [reg EXCEPT ![w] = 0]
        /\ UNCHANGED <<output_tokens, args, request, resp, lines, events,
                       raised, start, hist, host, issued>>

LoadOutput(w) ==
    /\ pc[w] = "out_load"
    /\ reg' = [reg EXCEPT ![w] = output_tokens]
    /\ pc' = [pc EXCEPT ![w] = "out_store"]
    /\ UNCHANGED <<input_tokens, output_tokens, args, request, resp, lines, exc,
                   events, raised, start, hist, host, issued>>

StoreOutput(w) ==
    LET sum == Accumulate(reg[w], CurrentUsage(w), "completion_tokens")
    IN  /\ pc[w] = "out_store"
        /\ IF sum.exc # ""
           THEN /\ exc' = [exc EXCEPT ![w] = sum.exc]
                /\ pc' = [pc EXCEPT ![w] = "except"]
                /\ UNCHANGED output_tokens
           ELSE /\ output_tokens' = sum.v
                /\ pc' = [pc EXCEPT ![w] = IF args[w].stream THEN "line" ELSE "done"]
                /\ UNCHANGED exc
        /\ reg' = [reg EXCEPT ![w] = 0]
        /\ UNCHANGED <<input_tokens, args, request, resp, lines, events,
                       raised, start, hist, host, issued>>

\* A handler's _notify_error: an exception of it leaves query_model.
Handle(w, message) ==
    /\ LET told == NotifyError(args[w].cb, message, args[w].stream, host = "direct")
       IN  /\ events' = [events EXCEPT ![w] = @ \o told.evs]
           /\ raised' = [raised EXCEPT ![w] = told.exc # ""]
    /\ exc' = [exc EXCEPT ![w] = ""]
    /\ pc' = [pc EXCEPT ![w] = "done"]
    /\ UNCHANGED <<input_tokens, output_tokens, args, request, resp, lines, reg,
                   start, hist, host, issued>>

\* (mutant) the message always carries e.reason
Mut_HttpDetailReason(answer) == [t |-> "reason"]

\* e.read().decode("utf-8"), or e.reason when that fails.
HttpDetail(answer) ==
    IF answer.body.t = "badutf8" THEN [t |-> "reason"] ELSE answer.body

\* Lines 205-211: except urllib.error.HTTPError
HandleHTTPError(w) ==
    /\ pc[w] = "http_error"
    /\ Handle(w, HttpMessage(resp[w].code, HttpDetail(resp[w])))

\* Lines 212-214: except Exception
HandleException(w) ==
    /\ pc[w] = "except"
    /\ Handle(w, GeneralMessage(exc[w]))

Steps(w) ==
    \/ Begin(w)
    \/ Open(w)
    \/ NonStream(w)
    \/ ReadLine(w)
    \/ LoadInput(w)
    \/ StoreInput(w)
    \/ LoadOutput(w)
    \/ StoreOutput(w)
    \/ HandleHTTPError(w)
    \/ HandleException(w)

\* Queries issued one after another by one caller.
Next == \E w \in Threads : QueryModel(w) \/ Steps(w)
Spec == Init /\ [][Next]_vars

\* Queries issued through query_model_async: one worker thread each.
NextAsync ==
    \/ \E w \in Threads : QueryModelAsync(w) \/ CallerAppends(w) \/ Steps(w)
    \/ ReturnAsync
SpecAsync == Init /\ [][NextAsync]_vars

----------------------------------------------------------------------------
(* Claims *)

IsError(e) == e.kind = "error"
ErrorEvents(w) == SelectSeq(events[w], IsError)

\* The worker of thread w has finished a non-stream query whose response
\* reported the usage (p, c), and its ResponseMessage was delivered.
FinishedWithUsage(w, p, c) ==
    /\ Succeeded(w)
    /\ resp[w].t = "ok"
    /\ resp[w].body = RawJson(ResponseBody(MessageObject("value", "value", "absent"),
                                           UsageObject(JNum(p), JNum(c))))

\* Exactly the two asynchronous queries of the claim have run, one per worker.
BothFinished ==
    /\ issued = 2
    /\ FinishedWithUsage("t1", 10, 5)
    /\ FinishedWithUsage("t2", 20, 15)

\* C1: two concurrent query_model_async calls whose responses report usage
\* (10,5) and (20,15) leave the counters at (30,20) once both workers have
\* finished, in every interleaving of their counter updates.
C1_ConcurrentUsageSum ==
    BothFinished => input_tokens = 30 /\ output_tokens = 20

\* C2: in every step of every execution, sequential or concurrent, neither
\* counter decreases.
C2_CountersNeverDecrease ==
    [][input_tokens' >= input_tokens /\ output_tokens' >= output_tokens]_vars

\* A query whose request could not be serialised, opened or answered with 2xx.
RequestFailed(w) ==
    pc[w] = "done" /\ (request[w] = NoRequest \/ resp[w].t \in {"http", "fail"})

\* C3: query_model never raises to its caller: whatever fails, also building or
\* serialising the payload, it delivers a single error event and returns.
C3_NeverRaises ==
    \A w \in Threads :
        /\ ~raised[w]
        /\ RequestFailed(w) => Len(ErrorEvents(w)) = 1

\* C4: whatever additional_model_options holds, the payload sent has the
\* client's model, the caller's conversation and the stream argument.
C4_OptionsNeverReplace ==
    \A w \in Threads :
        pc[w] = "open" =>
            /\ request[w].v["model"] = JStr(Model)
            /\ request[w].v["messages"] = Conversation(args[w].query)
            /\ request[w].v["stream"] = JBool(args[w].stream)

----------------------------------------------------------------------------
(* Claims about the stream *)

\* Thread w runs (or has run) a streaming query whose connection was opened.
Streaming(w) == args[w].stream /\ resp[w].t = "ok"

IsFrame(line) == line.t = "data" /\ line.v.t = "json"

\* A frame with choices[0].delta and no error key.
IsDeltaFrame(line) ==
    /\ IsFrame(line)
    /\ line.v.v.t = "obj"
    /\ "error" \notin DOMAIN line.v.v.v
    /\ "choices" \in DOMAIN line.v.v.v
    /\ line.v.v.v["choices"].t = "list"
    /\ Len(line.v.v.v["choices"].v) > 0
    /\ line.v.v.v["choices"].v[1].t = "obj"
    /\ "delta" \in DOMAIN line.v.v.v["choices"].v[1].v
    /\ line.v.v.v["choices"].v[1].v["delta"].t = "obj"

IsErrorFrame(line) ==
    IsFrame(line) /\ line.v.v.t = "obj" /\ "error" \in DOMAIN line.v.v.v

IsMalformed(line) == line.t = "data" /\ line.v.t = "garbage"

\* The delta event a delta frame is to produce.
DeltaEvent(line) ==
    LET choice == line.v.v.v["choices"].v[1].v
    IN  Event("delta", choice["delta"],
              IF "finish_reason" \in DOMAIN choice THEN choice["finish_reason"] ELSE PyNone)
StopEvent == Event("stop", EmptyDict, JStr("stop"))

\* The usage a delta frame reports under key (0 when it reports none).
FrameUsage(line, key) ==
    LET chunk == line.v.v.v
    IN  IF IsDeltaFrame(line) /\ "usage" \in DOMAIN chunk /\ chunk["usage"].t = "obj"
           /\ key \in DOMAIN chunk["usage"].v
        THEN Tokens(chunk["usage"].v[key])
        ELSE 0
RECURSIVE UsageSum(_, _)
UsageSum(ls, key) ==
    IF ls = <<>> THEN 0 ELSE FrameUsage(Head(ls), key) + UsageSum(Tail(ls), key)

\* C5: for delta frames followed by [DONE], the callback receives one delta
\* event per frame, in arrival order and before the next line is read, then one
\* stop event, and the stream ends there: nothing is read or delivered after it.
C5_DeltasThenStop ==
    \A w \in Threads :
        ( /\ Streaming(w)
          /\ args[w].cb = "Callback2"
          /\ \A i \in DOMAIN lines[w] :
                \/ IsDeltaFrame(lines[w][i])
                \/ lines[w][i] = Done /\ i = Len(lines[w]) )
        => /\ events[w] = [i \in DOMAIN lines[w] |->
                              IF lines[w][i] = Done THEN StopEvent
                              ELSE DeltaEvent(lines[w][i])]
           /\ (lines[w] # <<>> /\ lines[w][Len(lines[w])] = Done) => pc[w] = "done"
           /\ pc[w] = "done" => lines[w] # <<>> /\ lines[w][Len(lines[w])] = Done

W5_DeltasThenStop ==
    \E w \in Threads :
        /\ Streaming(w)
        /\ args[w].cb = "Callback2"
        /\ lines[w] = <<DeltaA, DeltaB, Done>>
        /\ events[w] = <<DeltaEvent(DeltaA), DeltaEvent(DeltaB), StopEvent>>
        /\ pc[w] = "done"

\* C6: a frame with an error key gets exactly one error event (when a callback
\* is given), after the delta events of all earlier frames, and ends the
\* stream: it is the last line read.
C6_ErrorFrameEndsStream ==
    \A w \in Threads :
        Streaming(w) =>
            \A i \in DOMAIN lines[w] :
                IsErrorFrame(lines[w][i]) =>
                    /\ i = Len(lines[w])
                    /\ pc[w] = "done"
                    /\ ~raised[w]
                    /\ args[w].cb \in Callbacks =>
                          /\ Len(ErrorEvents(w)) = 1
                          /\ events[w][Len(events[w])].kind = "error"
                          /\ events[w][Len(events[w])].a1
                                = ErrorDict(StrOf(lines[w][i].v.v.v["error"]))
                    /\ args[w].cb = "Callback2" =>
                          /\ Len(events[w]) = 1 + Cardinality({j \in 1..(i - 1) : IsFrame(lines[w][j])})
                          /\ \A j \in 1..(Len(events[w]) - 1) : events[w][j].kind = "delta"

W6_ErrorFrameEndsStream ==
    \E w \in Threads :
        /\ Streaming(w)
        /\ lines[w] = <<DeltaA, ErrorFrame>>
        /\ events[w] = <<DeltaEvent(DeltaA),
                         Event("error", ErrorDict(JStr("boom")), JStr("error"))>>
        /\ pc[w] = "done"

\* C7: a `data: ` line that is no JSON produces no event, changes no counter
\* and does not end the stream: the delta frames around it yield their events.
C7_MalformedLineSkipped ==
    \A w \in Threads :
        ( /\ Streaming(w)
          /\ args[w].cb = "Callback2"
          /\ \A i \in DOMAIN lines[w] :
                \/ IsDeltaFrame(lines[w][i])
                \/ IsMalformed(lines[w][i])
                \/ lines[w][i] = Eof )
        => /\ LET frames == SelectSeq(lines[w], IsDeltaFrame)
              IN  events[w] = [i \in DOMAIN frames |-> DeltaEvent(frames[i])]
           /\ pc[w] # "except"
           /\ pc[w] = "done" => lines[w] # <<>> /\ lines[w][Len(lines[w])] = Eof
           /\ pc[w] \in {"line", "done"} =>
                /\ input_tokens = start[w][1] + UsageSum(lines[w], "prompt_tokens")
                /\ output_tokens = start[w][2] + UsageSum(lines[w], "completion_tokens")

W7_MalformedLineSkipped ==
    \E w \in Threads :
        /\ Streaming(w)
        /\ args[w].cb = "Callback2"
        /\ lines[w] = <<DeltaA, Data(Garbage), DeltaB>>
        /\ events[w] = <<DeltaEvent(DeltaA), DeltaEvent(DeltaB)>>
        /\ pc[w] = "line"
        /\ input_tokens = start[w][1] + 10

----------------------------------------------------------------------------
(* Claims about errors, usage and the non-stream result *)

\* The callback can take the call an error event is delivered with: the
\* two-argument call of stream mode falls back to one argument, and the
\* one-argument call of non-stream mode has no other shape to fall back to.
TakesErrorCall(w) ==
    args[w].cb \in Callbacks /\ (args[w].stream \/ args[w].cb = "Callback1")

\* C8: an HTTP error status gives exactly one error event, whose message
\* contains the decoded response body, in stream and non-stream mode; in stream
\* mode no line is read and no delta or stop event is delivered.
C8_HttpErrorEvent ==
    \A w \in Threads :
        resp[w].t = "http" =>
            /\ lines[w] = <<>>
            /\ \A i \in DOMAIN events[w] : events[w][i].kind = "error"
            /\ pc[w] = "http_error" => events[w] = <<>>
            /\ (pc[w] = "done" /\ TakesErrorCall(w)) =>
                  /\ Len(events[w]) = 1
                  /\ ~raised[w]
                  /\ events[w][1].a1.v["error"].t = "http"
                  /\ events[w][1].a1.v["error"].v.code = resp[w].code
                  /\ resp[w].body.t # "badutf8" =>
                        events[w][1].a1.v["error"].v.detail = resp[w].body

W8_HttpErrorEvent ==
    \E w \in Threads :
        /\ args[w].stream
        /\ resp[w].t = "http"
        /\ resp[w].code = 401
        /\ pc[w] = "done"
        /\ Len(events[w]) = 1
        /\ events[w][1].a1.v["error"].v.detail
              = RawJson(JObj("error" :> JObj("message" :> JStr("bad key"))))

\* C9: after N successful non-stream queries issued one after another on a
\* fresh client, the counters are the sums of the reported prompt_tokens and
\* completion_tokens, a missing number or usage object counting as 0.
C9_SequentialUsageSums ==
    (hist.ok /\ Succeeded("main")) =>
        /\ input_tokens = hist.in + Reported(resp["main"], "prompt_tokens")
        /\ output_tokens = hist.out + Reported(resp["main"], "completion_tokens")

W9_SequentialUsageSums ==
    /\ hist.ok
    /\ hist.n = 1
    /\ Succeeded("main")
    /\ Reported(resp["main"], "prompt_tokens") = 20
    /\ input_tokens = 30
    /\ output_tokens = 20

\* A 2xx body with choices[0].message and no error key.
IsMessageBody(raw) ==
    /\ raw.t = "json"
    /\ raw.v.t = "obj"
    /\ "error" \notin DOMAIN raw.v.v
    /\ "choices" \in DOMAIN raw.v.v
    /\ raw.v.v["choices"].t = "list"
    /\ Len(raw.v.v["choices"].v) > 0
    /\ raw.v.v["choices"].v[1].t = "obj"
    /\ "message" \in DOMAIN raw.v.v["choices"].v[1].v
    /\ raw.v.v["choices"].v[1].v["message"].t = "obj"

\* The JSON field of the message, null when it is absent.
MessageField(raw, key) ==
    LET message == raw.v.v["choices"].v[1].v["message"].v
    IN  IF key \in DOMAIN message THEN message[key] ELSE JNull

\* C10: in non-stream mode every body with choices[0].message and no error key
\* gives exactly one ResponseMessage whose role, content and tool_calls are the
\* JSON fields (absent as null), whichever of them are present, absent or null,
\* and no error event.
C10_ResponseMessageRoundTrip ==
    \A w \in Threads :
        ( /\ pc[w] = "done"
          /\ ~args[w].stream
          /\ args[w].cb = "Callback1"
          /\ resp[w].t = "ok"
          /\ IsMessageBody(resp[w].body) )
        => events[w] = << Event("response",
                                [t |-> "Message",
                                 v |-> [role |-> MessageField(resp[w].body, "role"),
                                        content |-> MessageField(resp[w].body, "content"),
                                        tool_calls |-> MessageField(resp[w].body, "tool_calls")]],
                                NoArg) >>

----------------------------------------------------------------------------
(* Claims about the events of one query *)

IsTerminal(e) == e.kind \in {"stop", "error"}
TerminalEvents(w) == SelectSeq(events[w], IsTerminal)
LastLine(w) == lines[w][Len(lines[w])]

\* C11 (as stated): every streaming query that has run to completion has
\* delivered exactly one terminal event (stop or error), and it is the last
\* event: the delta events come before it and nothing comes after it.
C11_ExactlyOneTerminalEvent ==
    \A w \in Threads :
        (pc[w] = "done" /\ args[w].stream /\ ~raised[w]) =>
            /\ Len(TerminalEvents(w)) = 1
            /\ IsTerminal(events[w][Len(events[w])])
            /\ \A i \in 1..(Len(events[w]) - 1) : events[w][i].kind = "delta"

\* C11 (amended): a streaming query delivers at most one terminal event, the
\* delta events before it and nothing after it.  A query whose request was
\* sent delivers exactly one error event when it ends by an HTTP error, a
\* transport failure, an error frame or an exception in the loop (none when
\* no callback was given), the stop event when it ends by [DONE] and the
\* callback takes two arguments, and no terminal event when the transport
\* reports EOF before [DONE].
C11_AtMostOneTerminalEvent ==
    \A w \in Threads :
        args[w].stream =>
            /\ Len(TerminalEvents(w)) <= 1
            /\ \A i \in DOMAIN events[w] :
                  IF IsTerminal(events[w][i])
                  THEN i = Len(events[w]) /\ pc[w] = "done"
                  ELSE events[w][i].kind = "delta"
            /\ (pc[w] = "done" /\ resp[w].t \in {"http", "fail"}) =>
                  Len(ErrorEvents(w)) = (IF args[w].cb \in Callbacks THEN 1 ELSE 0)
            /\ (pc[w] = "done" /\ resp[w].t = "ok") =>
                  /\ lines[w] # <<>>
                  /\ CASE LastLine(w) = Eof -> TerminalEvents(w) = <<>>
                        [] LastLine(w) = Done ->
                              args[w].cb = "Callback2" => TerminalEvents(w) = <<StopEvent>>
                        [] OTHER ->
                              Len(ErrorEvents(w)) = (IF args[w].cb \in Callbacks THEN 1 ELSE 0)

\* A stream of one delta frame that the transport ends without [DONE]: the
\* query is over and the delta event is all the callback received.
W11_AtMostOneTerminalEvent ==
    \E w \in Threads :
        /\ Streaming(w)
        /\ args[w].cb = "Callback2"
        /\ lines[w] = <<DeltaA, Eof>>
        /\ events[w] = <<DeltaEvent(DeltaA)>>
        /\ pc[w] = "done"

\* C12: a non-stream query delivers exactly one event, a ResponseMessage or an
\* error event and never both: after the ResponseMessage no later step of the
\* query (usage accumulation, whatever the usage field holds) adds an error
\* event.
C12_ResponseOrErrorNotBoth ==
    \A w \in Threads :
        (~args[w].stream /\ args[w].cb = "Callback1") =>
            /\ Len(events[w]) <= 1
            /\ (pc[w] = "done" /\ ~raised[w]) => Len(events[w]) = 1

\* The kind of event a line of a well-formed stream is to produce.
KindOf(line) == IF line = Done THEN "stop" ELSE "delta"

\* C13: whatever the callback's shape (one parameter or two), every event is
\* handed to it exactly once: each delta frame and [DONE] of a stream gives one
\* call that reaches the callback body, in order, with the frame's delta, and a
\* failed request gives one error event; none is lost and none is repeated.
C13_EveryEventOnceForBothShapes ==
    \A w \in Threads :
        /\ ( /\ Streaming(w)
              /\ pc[w] \in {"line", "done"}
              /\ \A i \in DOMAIN lines[w] :
                    \/ IsDeltaFrame(lines[w][i])
                    \/ lines[w][i] = Done /\ i = Len(lines[w]) )
           => /\ Len(events[w]) = Len(lines[w])
              /\ \A i \in DOMAIN events[w] :
                    /\ events[w][i].kind = KindOf(lines[w][i])
                    /\ IsDeltaFrame(lines[w][i]) =>
                          events[w][i].a1 = DeltaEvent(lines[w][i]).a1
        /\ (pc[w] = "done" /\ resp[w].t \in {"http", "fail"}) =>
              Len(events[w]) = 1 /\ events[w][1].kind = "error"

----------------------------------------------------------------------------
(* Claims about query_model_async *)

\* C14: query_model_async returns without waiting for the query.  Each call
\* starts one worker with the call's arguments and touches nothing else: the
\* worker has not run a line of query_model, no other thread and no counter
\* changes.  The return is possible wherever the workers are, before the
\* first line of the query as well as after its last, and changes nothing.
\* The caller's own thread runs no part of a query and no exception reaches
\* it: a failure stays in the worker or goes to the callback.
C14_AsyncReturnsAtOnce ==
    /\ [](pc["main"] = "called" => ENABLED ReturnAsync)
    /\ [][ /\ pc'["main"] \in {"idle", "called"}
           /\ ~raised'["main"]
           /\ events'["main"] = <<>>
           /\ issued' # issued =>
                 \E w \in AsyncThreads :
                     /\ pc[w] \in {"idle", "done"}
                     /\ pc'[w] = "begin"
                     /\ args'[w] \in AsyncCalls
                     /\ request'[w] = NoRequest
                     /\ resp'[w] = NoAnswer
                     /\ lines'[w] = <<>>
                     /\ events'[w] = <<>>
                     /\ ~raised'[w]
                     /\ \A v \in AsyncThreads \ {w} :
                           /\ pc'[v] = pc[v]
                           /\ args'[v] = args[v]
                           /\ events'[v] = events[v]
                           /\ raised'[v] = raised[v]
                     /\ input_tokens' = input_tokens
                     /\ output_tokens' = output_tokens
           /\ (pc["main"] = "called" /\ pc'["main"] = "idle") =>
                 UNCHANGED <<input_tokens, output_tokens, args, request, resp, lines,
                             events, raised>> ]_vars

\* Two calls have returned and neither worker has run a line of query_model.
W14_AsyncReturnsAtOnce ==
    /\ issued = 2
    /\ pc["main"] = "idle"
    /\ pc["t1"] = "begin"
    /\ pc["t2"] = "begin"
    /\ args["t1"].stream
    /\ ~args["t2"].stream

----------------------------------------------------------------------------
(* Claims about the frames of a stream *)

\* A parsed frame without an error key.
IsPlainFrame(line) ==
    IsFrame(line) /\ line.v.v.t = "obj" /\ "error" \notin DOMAIN line.v.v.v

\* A parsed non-error frame that has no delta: no choices, an empty list of
\* choices, or a first choice without a delta.
HasNoDelta(line) ==
    /\ IsPlainFrame(line)
    /\ \/ "choices" \notin DOMAIN line.v.v.v
       \/ line.v.v.v["choices"] = JList(<<>>)
       \/ /\ line.v.v.v["choices"].t = "list"
          /\ Len(line.v.v.v["choices"].v) > 0
          /\ line.v.v.v["choices"].v[1].t = "obj"
          /\ "delta" \notin DOMAIN line.v.v.v["choices"].v[1].v

\* The finish reason of a frame without a delta: its choice's, or null.
FinishOf(line) ==
    LET chunk == line.v.v.v
    IN  IF "choices" \in DOMAIN chunk /\ chunk["choices"] # JList(<<>>)
           /\ "finish_reason" \in DOMAIN chunk["choices"].v[1].v
        THEN chunk["choices"].v[1].v["finish_reason"]
        ELSE PyNone

\* The delta event a parsed non-error frame is to produce.
FrameEvent(line) ==
    IF IsDeltaFrame(line) THEN DeltaEvent(line)
    ELSE Event("delta", EmptyDict, FinishOf(line))

\* The usage a parsed frame reports under key (0 when it reports none).
ChunkUsage(line, key) ==
    IF IsFrame(line) /\ line.v.v.t = "obj" /\ "usage" \in DOMAIN line.v.v.v
       /\ line.v.v.v["usage"].t = "obj" /\ key \in DOMAIN line.v.v.v["usage"].v
    THEN Tokens(line.v.v.v["usage"].v[key])
    ELSE 0
RECURSIVE ChunkUsageSum(_, _)
ChunkUsageSum(ls, key) ==
    IF ls = <<>> THEN 0 ELSE ChunkUsage(Head(ls), key) + ChunkUsageSum(Tail(ls), key)

\* C15: a parsed non-error frame whose choices is an empty list, or whose
\* choice has no delta, yields a delta event with an empty delta object (and
\* the choice's finish reason, null when there is none), has its usage added to
\* the counters, and does not end the stream: later frames are processed.
C15_EmptyChoicesGivesEmptyDelta ==
    \A w \in Threads :
        ( /\ Streaming(w)
          /\ args[w].cb = "Callback2"
          /\ \A i \in DOMAIN lines[w] :
                IsDeltaFrame(lines[w][i]) \/ HasNoDelta(lines[w][i]) )
        => /\ pc[w] \notin {"except", "done"}
           /\ events[w] = [i \in DOMAIN lines[w] |-> FrameEvent(lines[w][i])]
           /\ pc[w] = "line" =>
                /\ input_tokens = start[w][1] + ChunkUsageSum(lines[w], "prompt_tokens")
                /\ output_tokens = start[w][2] + ChunkUsageSum(lines[w], "completion_tokens")

IsBadUtf8(line) == line.t = "badutf8"
ProducesEvent(line) == IsDeltaFrame(line) \/ line = Done

\* C16: a line that is not valid UTF-8 is skipped: it produces no event, no
\* error event either, and the stream goes on, so the delta frames and the
\* [DONE] around it produce their events.
C16_UndecodableLineSkipped ==
    \A w \in Threads :
        ( /\ Streaming(w)
          /\ args[w].cb = "Callback2"
          /\ \A i \in DOMAIN lines[w] :
                \/ IsDeltaFrame(lines[w][i])
                \/ IsBadUtf8(lines[w][i])
                \/ lines[w][i] = Done /\ i = Len(lines[w]) )
        => /\ pc[w] # "except"
           /\ ErrorEvents(w) = <<>>
           /\ LET shown == SelectSeq(lines[w], ProducesEvent)
              IN  events[w] = [i \in DOMAIN shown |->
                                  IF shown[i] = Done THEN StopEvent ELSE DeltaEvent(shown[i])]

\* A parsed non-error frame that the loop turns into a delta event.
EmitsDelta(line) ==
    \/ IsDeltaFrame(line)
    \/ HasNoDelta(line) /\ ~("choices" \in DOMAIN line.v.v.v
                              /\ line.v.v.v["choices"] = JList(<<>>))
IsDelta(e) == e.kind = "delta"

\* The frames of thread w's stream whose delta call returned: all that emit a
\* delta, unless the callback cannot take the two-argument call and the host
\* lets its TypeError through (the first such frame then ends the stream).
Emitted(w) ==
    IF args[w].cb = "Callback2" \/ (args[w].cb = "Callback1" /\ host = "ida")
    THEN SelectSeq(lines[w], EmitsDelta)
    ELSE <<>>

\* C17: when a streaming query has ended, the counters have grown by exactly
\* the sum of the usage of the frames that were emitted as delta events (one
\* event per such frame for a callback that takes the call); frames without
\* usage or with an empty one, skipped lines, an error frame and a frame that
\* failed add nothing.
C17_StreamUsageSum ==
    \A w \in Threads :
        (Streaming(w) /\ pc[w] = "done") =>
            /\ input_tokens = start[w][1] + ChunkUsageSum(Emitted(w), "prompt_tokens")
            /\ output_tokens = start[w][2] + ChunkUsageSum(Emitted(w), "completion_tokens")
            /\ args[w].cb = "Callback2" =>
                  Len(SelectSeq(events[w], IsDelta)) = Len(Emitted(w))

\* Two frames with usage and [DONE]: both pairs are in the counters.
W17_StreamUsageSum ==
    \E w \in Threads :
        /\ Streaming(w)
        /\ args[w].cb = "Callback2"
        /\ pc[w] = "done"
        /\ lines[w] = <<DeltaB, DeltaB, Done>>
        /\ input_tokens = start[w][1] + 20
        /\ output_tokens = start[w][2] + 10

----------------------------------------------------------------------------
(* Claims about the errors and counters of a non-stream query *)

\* A 2xx body whose top-level object has an error key.
IsErrorBody(raw) ==
    raw.t = "json" /\ raw.v.t = "obj" /\ "error" \in DOMAIN raw.v.v

\* The message the error of such a body is to be reported with: its nested
\* message, or the string form of the whole error value.
ErrorText(raw) ==
    LET error == raw.v.v["error"]
    IN  IF error.t = "obj" /\ "message" \in DOMAIN error.v
        THEN error.v["message"]
        ELSE StrOf(error)

\* C18: a non-stream body with a top-level error key gives exactly one error
\* event and no ResponseMessage; its message is the error's nested message
\* when there is one, else the string form of the error value, also when that
\* value is a plain string.
C18_ErrorBodyMessage ==
    \A w \in Threads :
        ( /\ pc[w] = "done"
          /\ ~args[w].stream
          /\ args[w].cb = "Callback1"
          /\ resp[w].t = "ok"
          /\ IsErrorBody(resp[w].body) )
        => events[w] = <<Event("error", ErrorDict(ErrorText(resp[w].body)), NoArg)>>

\* The answer to a non-stream query is one of the errors of the claim: an HTTP
\* error status, a transport failure, a body that is no JSON, an error key.
EndsInError(w) ==
    \/ resp[w].t \in {"http", "fail"}
    \/ resp[w].t = "ok" /\ (resp[w].body.t # "json" \/ IsErrorBody(resp[w].body))

\* C19: a non-stream query answered with an error (error key, HTTP error
\* status, transport failure, body that is no JSON) leaves both counters as
\* they were when it began, and a non-stream query changes a counter only after
\* its ResponseMessage has been delivered.
C19_ErrorLeavesCounters ==
    \A w \in Threads :
        (pc[w] \notin {"idle", "begin"} /\ ~args[w].stream) =>
            /\ EndsInError(w) => <<input_tokens, output_tokens>> = start[w]
            /\ (<<input_tokens, output_tokens>> # start[w] /\ args[w].cb = "Callback1") =>
                  /\ events[w] # <<>>
                  /\ events[w][1].kind = "response"

\* A second query answered with an error body that carries usage: the error
\* event is delivered and the counters are those the first query left.
W19_ErrorLeavesCounters ==
    \E w \in Threads :
        /\ pc[w] = "done"
        /\ ~args[w].stream
        /\ resp[w].t = "ok"
        /\ IsErrorBody(resp[w].body)
        /\ "usage" \in DOMAIN resp[w].body.v.v
        /\ Len(ErrorEvents(w)) = 1
        /\ start[w] = <<10, 5>>
        /\ input_tokens = 10
        /\ output_tokens = 5

----------------------------------------------------------------------------
(* Claims about frames that are JSON but no object *)

IsNonObjectFrame(line) == IsFrame(line) /\ line.v.v.t # "obj"

\* C20: a frame whose payload is valid JSON but no object (a number, a string,
\* a list, null) is not skipped: it is the last line read, no delta event is
\* delivered for it, and the query ends with exactly one error event (given a
\* callback to deliver it to).
C20_NonObjectFrameEndsStream ==
    \A w \in Threads :
        Streaming(w) =>
            \A i \in DOMAIN lines[w] :
                IsNonObjectFrame(lines[w][i]) =>
                    /\ i = Len(lines[w])
                    /\ pc[w] \in {"except", "done"}
                    /\ ~raised[w]
                    /\ Len(ErrorEvents(w))
                          = (IF pc[w] = "done" /\ args[w].cb \in Callbacks THEN 1 ELSE 0)
                    /\ (pc[w] = "done" /\ args[w].cb \in Callbacks) =>
                          events[w][Len(events[w])].kind = "error"
                    /\ args[w].cb = "Callback2" =>
                          Len(SelectSeq(events[w], IsDelta))
                              = Len(SelectSeq(SubSeq(lines[w], 1, i - 1), EmitsDelta))

\* A delta frame, then the frame `data: 5`: the delta event and one error event.
W20_NonObjectFrameEndsStream ==
    \E w \in Threads :
        /\ Streaming(w)
        /\ args[w].cb = "Callback2"
        /\ lines[w] = <<DeltaA, Data(RawJson(JNum(5)))>>
        /\ events[w] = <<DeltaEvent(DeltaA),
                         Event("error", ErrorDict(GeneralMessage("TypeError")), JStr("error"))>>
        /\ pc[w] = "done"

====
